---- MODULE Spec2Model ----
(***************************************************************************)
(* State-machine model of two pixi.js classes:                             *)
(*   - ParticleContainer (src/src/particles/ParticleContainer.js)          *)
(*   - Rope              (src/unnamed/part_000)                            *)
(* One action per method; pure computations are operators.                 *)
(***************************************************************************)
EXTENDS Integers, Sequences, FiniteSets

VARIABLES
    \* ---- ParticleContainer ----
    pc,               \* "new" (constructor not run yet), "live", "destroyed"
    maxSizeArg,       \* constructor argument maxSize  (0 stands for omitted / falsy)
    batchSizeArg,     \* constructor argument batchSize (0 stands for omitted / falsy)
    propertiesArg,    \* constructor argument properties
    _properties,      \* this._properties
    _maxSize,         \* this._maxSize
    _batchSize,       \* this._batchSize
    _glBuffers,       \* this._glBuffers: list of buffer-group ids
    _buffers,         \* this._buffers (only destroy() touches it)
    _bufferToUpdate,  \* this._bufferToUpdate
    baseTexture,      \* this.baseTexture
    children,         \* this.children
    hasLoaded,        \* baseTexture.hasLoaded, per image source
    listeners,        \* image sources carrying this container's once('update') callback
    allocated,        \* number of buffer groups created so far (ids 1..allocated)
    released,         \* ids of buffer groups whose destroy() has run
    ctxTransform,     \* the raster context's current transform
    ctxLog,           \* calls made on the raster context by the last renderCanvas
    \* ---- Rope ----
    rpc,              \* "new", "super" (inside the Mesh constructor), "done"
    points,           \* this.points (shared with the caller)
    vertices, uvs, colors, indices,
    _ready,           \* this._ready
    texUvs,           \* this._texture._uvs
    texHeight,        \* this._texture.height
    dirty, indexDirty,
    \* ---- trace bookkeeping ----
    lastOp            \* the operation that produced the current state

pcVars == <<pc, maxSizeArg, batchSizeArg, propertiesArg, _properties, _maxSize,
            _batchSize, _glBuffers, _buffers, _bufferToUpdate, baseTexture,
            children, hasLoaded, listeners, allocated, released>>
canvasVars == <<ctxTransform, ctxLog>>
ropeVars == <<rpc, points, vertices, uvs, colors, indices, _ready, texUvs,
              texHeight, dirty, indexDirty>>
vars == <<pcVars, canvasVars, ropeVars, lastOp>>

\* JavaScript values of fields that hold a list, null or undefined
Null == [t |-> "null"]
Undefined == [t |-> "undefined"]
List(s) == [t |-> "list", v |-> s]
IsList(x) == x.t = "list"
\* this.baseTexture = null
NoTexture == 0

\* ---------------------------------------------------------------- bounds
MaxBatch == 2       \* small constructor sizes run from 1 to MaxBatch
MaxChildren == 3    \* longest child list
MaxIndex == 4       \* largest index handed to onChildrenChange
MaxCanvasChildren == 4  \* longest child list drawn by renderCanvas
MaxPoints == 3      \* longest point chain

Min(a, b) == IF a < b THEN a ELSE b
Max(a, b) == IF a > b THEN a ELSE b

Op(name, arg, before, prev, ok) ==
    [name |-> name, arg |-> arg, before |-> before, prev |-> prev, ok |-> ok]

\* ====================================================================
\*  ParticleContainer
\* ====================================================================

\* batchSize = batchSize || 15000
DefaultBatchSize == 15000
\* maxSize = maxSize || 15000
DefaultMaxSize == 15000
\* let maxBatchSize = 16384
maxBatchSize == 16384

\* `x || d` on numbers: 0 (and undefined, modelled as 0) is falsy
OrDefault(x, d) == IF x = 0 THEN d ELSE x

EffectiveBatchSizeNoCeiling(maxSize, batchSize) ==
    LET b == OrDefault(batchSize, DefaultBatchSize)
        m == OrDefault(maxSize, DefaultMaxSize)
    IN  IF b > m THEN m ELSE b

EffectiveBatchSizeNoMaxSize(maxSize, batchSize) ==
    LET b == OrDefault(batchSize, DefaultBatchSize)
    IN  IF b > maxBatchSize THEN maxBatchSize ELSE b

\* constructor lines 40-53: the value stored in this._batchSize
EffectiveBatchSize(maxSize, batchSize) ==
    LET b0 == OrDefault(batchSize, DefaultBatchSize)
        m  == OrDefault(maxSize, DefaultMaxSize)
        b1 == IF b0 > maxBatchSize THEN maxBatchSize ELSE b0
    IN  IF b1 > m THEN m ELSE b1

\* this._properties = [false, true, false, false, false]
DefaultProperties == List(<<FALSE, TRUE, FALSE, FALSE, FALSE>>)
PropertyKeys == <<"scale", "position", "rotation", "uvs", "alpha">>

\* setProperties: a key present in the object overrides, an absent key keeps
MergeProperties(props, obj) ==
    IF obj = Undefined THEN props
    ELSE List([i \in 1..5 |->
            IF PropertyKeys[i] \in DOMAIN obj THEN obj[PropertyKeys[i]] ELSE props.v[i]])

\* property objects handed to the constructor and to setProperties
PropObjs == { Undefined,
              [scale |-> TRUE],
              [position |-> FALSE, alpha |-> TRUE] }

\* image sources
TexIds == {1, 2}

OnChildrenChangeNoCompare(smallestChildIndex, batchSize, bufferToUpdate) ==
    smallestChildIndex \div batchSize

OnChildrenChangeIgnore(smallestChildIndex, batchSize, bufferToUpdate) ==
    bufferToUpdate

\* onChildrenChange: the new value of this._bufferToUpdate
OnChildrenChangeFloor(smallestChildIndex, batchSize, bufferToUpdate) ==
    LET bufferIndex == smallestChildIndex \div batchSize
    IN  IF bufferIndex < bufferToUpdate THEN bufferIndex ELSE bufferToUpdate

\* the k of the previous operation when that was a direct onChildrenChange(k)
PrevK == IF lastOp.name = "onChildrenChange" THEN lastOp.arg ELSE -1

Constructor ==
    /\ pc = "new"
    /\ pc' = "live"
    /\ _properties' = MergeProperties(DefaultProperties, propertiesArg)
    /\ _maxSize' = OrDefault(maxSizeArg, DefaultMaxSize)
    /\ _batchSize' = EffectiveBatchSize(maxSizeArg, batchSizeArg)
    /\ _glBuffers' = List(<<>>)
    /\ _bufferToUpdate' = 0
    /\ baseTexture' = NoTexture
    /\ lastOp' = Op("constructor", -1, -1, -1, TRUE)
    /\ UNCHANGED <<maxSizeArg, batchSizeArg, propertiesArg, _buffers, children,
                   hasLoaded, listeners, allocated, released>>
    /\ UNCHANGED <<canvasVars, ropeVars>>

SetProperties ==
    /\ pc = "live"
    /\ \E obj \in PropObjs :
          /\ _properties' = MergeProperties(_properties, obj)
          /\ lastOp' = Op("setProperties", -1, -1, -1, obj # Undefined)
    /\ UNCHANGED <<pc, maxSizeArg, batchSizeArg, propertiesArg, _maxSize, _batchSize,
                   _glBuffers, _buffers, _bufferToUpdate, baseTexture, children,
                   hasLoaded, listeners, allocated, released>>
    /\ UNCHANGED <<canvasVars, ropeVars>>

OnChildrenChange ==
    /\ pc = "live"
    /\ \E k \in 0..MaxIndex :
          /\ _bufferToUpdate' = OnChildrenChangeFloor(k, _batchSize, _bufferToUpdate)
          /\ lastOp' = Op("onChildrenChange", k, _bufferToUpdate, PrevK, TRUE)
    /\ UNCHANGED <<pc, maxSizeArg, batchSizeArg, propertiesArg, _properties, _maxSize,
                   _batchSize, _glBuffers, _buffers, baseTexture, children,
                   hasLoaded, listeners, allocated, released>>
    /\ UNCHANGED <<canvasVars, ropeVars>>

\* ---- the scene-graph API that edits the child list and notifies the container
Child(t, visible, rotated) == [tex |-> t, visible |-> visible, rotated |-> rotated]

RemoveAt(s, i) == SubSeq(s, 1, i - 1) \o SubSeq(s, i + 1, Len(s))

\* addChild(child): append, then onChildrenChange(index of the new child);
\* every child of one container uses the same image source
AddChild ==
    /\ pc = "live"
    /\ Len(children) < MaxChildren
    /\ \E t \in TexIds :
          /\ (children # <<>> => t = children[1].tex)
          /\ children' = Append(children, Child(t, TRUE, FALSE))
          /\ _bufferToUpdate' =
                 OnChildrenChangeFloor(Len(children), _batchSize, _bufferToUpdate)
          /\ lastOp' = Op("addChild", Len(children), _bufferToUpdate, -1, TRUE)
    /\ UNCHANGED <<pc, maxSizeArg, batchSizeArg, propertiesArg, _properties, _maxSize,
                   _batchSize, _glBuffers, _buffers, baseTexture,
                   hasLoaded, listeners, allocated, released>>
    /\ UNCHANGED <<canvasVars, ropeVars>>

\* removeChildAt(i): remove, then onChildrenChange(i) (0-based index i - 1 here)
RemoveChild ==
    /\ pc = "live"
    /\ \E i \in 1..Len(children) :
          /\ children' = RemoveAt(children, i)
          /\ _bufferToUpdate' =
                 OnChildrenChangeFloor(i - 1, _batchSize, _bufferToUpdate)
          /\ lastOp' = Op("removeChild", i - 1, _bufferToUpdate, -1, TRUE)
    /\ UNCHANGED <<pc, maxSizeArg, batchSizeArg, propertiesArg, _properties, _maxSize,
                   _batchSize, _glBuffers, _buffers, baseTexture,
                   hasLoaded, listeners, allocated, released>>
    /\ UNCHANGED <<canvasVars, ropeVars>>

\* ---- the GPU batch backend (renderer.plugins.particle.render(container))
CeilDiv(a, b) == (a + b - 1) \div b

\* batches the backend walks: the children it draws, batchSize at a time
NumBatches(n, maxSize, batchSize) == CeilDiv(Min(n, maxSize), batchSize)

\* buffer groups are created for the batches that have none yet
BackendBuffers(glBuffers, nb, nextId) ==
    IF Len(glBuffers.v) >= nb THEN glBuffers
    ELSE List(glBuffers.v \o [j \in 1..(nb - Len(glBuffers.v)) |-> nextId + j])

\* after the upload pass every walked batch is clean
BackendDirtyFloor(bufferToUpdate, nb) == IF bufferToUpdate < nb THEN nb ELSE bufferToUpdate

RenderGuard(visible, alphaPositive, renderable, n) ==
    visible /\ alphaPositive /\ n > 0 /\ renderable

CaptureAlways(current, ch) == ch[1].tex

\* renderWebGL lines 158-160: the image source after the capture step
Capture(current, ch) == IF current = NoTexture THEN ch[1].tex ELSE current

RegisterNever(current, ch, loaded, ls) == ls

\* renderWebGL lines 158-166: the once('update') registrations after the capture step
Register(current, ch, loaded, ls) ==
    IF current = NoTexture /\ ~loaded[ch[1].tex] THEN ls \cup {ch[1].tex} ELSE ls

RenderWebGL ==
    /\ pc = "live"
    /\ \E visible \in BOOLEAN, alphaPositive \in BOOLEAN, renderable \in BOOLEAN,
          uploads \in BOOLEAN :
          LET passes == RenderGuard(visible, alphaPositive, renderable, Len(children))
              nb == NumBatches(Len(children), _maxSize, _batchSize)
          IN  IF ~passes
              THEN /\ ~uploads
                   /\ lastOp' = Op("renderWebGL", 0, _bufferToUpdate, -1, FALSE)
                   /\ UNCHANGED <<baseTexture, listeners, _glBuffers, allocated,
                                  _bufferToUpdate>>
              ELSE /\ baseTexture' = Capture(baseTexture, children)
                   /\ listeners' = Register(baseTexture, children, hasLoaded, listeners)
                   /\ (hasLoaded[baseTexture'] => uploads)
                   /\ IF uploads
                      THEN /\ _glBuffers' = BackendBuffers(_glBuffers, nb, allocated)
                           /\ allocated' = allocated + Len(_glBuffers'.v) - Len(_glBuffers.v)
                           /\ _bufferToUpdate' = BackendDirtyFloor(_bufferToUpdate, nb)
                      ELSE UNCHANGED <<_glBuffers, allocated, _bufferToUpdate>>
                   /\ lastOp' = Op("renderWebGL",
                                   IF baseTexture = NoTexture THEN 1 ELSE 0,
                                   _bufferToUpdate, -1, TRUE)
    /\ UNCHANGED <<pc, maxSizeArg, batchSizeArg, propertiesArg, _properties, _maxSize,
                   _batchSize, _buffers, children, hasLoaded, released>>
    /\ UNCHANGED <<canvasVars, ropeVars>>

\* renderWebGL line 164: the callback's argument, this.onChildrenChange(0)
CallbackIndex == 0

\* an image source finishes loading and emits 'update'; a once() callback
\* registered on it runs and is dropped
TextureLoaded ==
    /\ pc # "new"
    /\ \E t \in TexIds :
          /\ ~hasLoaded[t]
          /\ hasLoaded' = [hasLoaded EXCEPT ![t] = TRUE]
          /\ listeners' = listeners \ {t}
          /\ _bufferToUpdate' =
                 IF t \in listeners
                 THEN OnChildrenChangeFloor(CallbackIndex, _batchSize, _bufferToUpdate)
                 ELSE _bufferToUpdate
          /\ lastOp' = Op("textureLoaded", t, _bufferToUpdate, -1, t \in listeners)
    /\ UNCHANGED <<pc, maxSizeArg, batchSizeArg, propertiesArg, _properties, _maxSize,
                   _batchSize, _glBuffers, _buffers, baseTexture, children,
                   allocated, released>>
    /\ UNCHANGED <<canvasVars, ropeVars>>

\* destroy lines 321-325: the buffer groups whose destroy() is called
DestroyedBuffers(buffers) ==
    IF IsList(buffers) THEN {buffers.v[i] : i \in DOMAIN buffers.v} ELSE {}

\* destroy(); super.destroy() leaves the container unusable
Destroy ==
    /\ pc = "live"
    /\ pc' = "destroyed"
    /\ released' = released \cup DestroyedBuffers(_buffers)
    /\ _properties' = Null
    /\ _buffers' = Null
    /\ lastOp' = Op("destroy", -1, _bufferToUpdate, -1, TRUE)
    /\ UNCHANGED <<maxSizeArg, batchSizeArg, propertiesArg, _maxSize, _batchSize,
                   _glBuffers, _bufferToUpdate, baseTexture, children, hasLoaded,
                   listeners, allocated>>
    /\ UNCHANGED <<canvasVars, ropeVars>>

\* ====================================================================
\*  Specifications of the container
\* ====================================================================

\* the transform left on the raster context by earlier drawing
Transform(of, rounded) == [of |-> of, rounded |-> rounded]
StaleTransform == Transform(-1, FALSE)

CanvasIdle == ctxTransform = StaleTransform /\ ctxLog = <<>>

RopeIdle ==
    /\ rpc = "idle" /\ points = <<>>
    /\ vertices = Undefined /\ uvs = Undefined
    /\ colors = Undefined /\ indices = Undefined
    /\ _ready = FALSE /\ texUvs = Null /\ texHeight = 0
    /\ dirty = FALSE /\ indexDirty = FALSE

\* the fields before the constructor body has run
Unconstructed ==
    /\ pc = "new"
    /\ _properties = Undefined /\ _maxSize = 0 /\ _batchSize = 0
    /\ _glBuffers = Undefined /\ _buffers = Undefined /\ _bufferToUpdate = 0
    /\ baseTexture = NoTexture /\ children = <<>>
    /\ listeners = {} /\ allocated = 0 /\ released = {}
    /\ lastOp = Op("none", -1, -1, -1, FALSE)

\* constructor arguments around the two clamps (0: argument omitted)
CtorSizes == (0..MaxBatch) \cup {10, 20, DefaultMaxSize, maxBatchSize - 1, maxBatchSize,
                                maxBatchSize + 1, maxBatchSize + MaxBatch, 2 * maxBatchSize}

InitCtor ==
    /\ Unconstructed
    /\ maxSizeArg \in CtorSizes
    /\ batchSizeArg \in CtorSizes
    /\ propertiesArg \in PropObjs
    /\ hasLoaded = [t \in TexIds |-> TRUE]
    /\ CanvasIdle /\ RopeIdle

NextCtor == Constructor \/ SetProperties

SpecCtor == InitCtor /\ [][NextCtor]_vars

InitPC ==
    /\ Unconstructed
    /\ maxSizeArg \in 0..MaxBatch
    /\ batchSizeArg \in 0..MaxBatch
    /\ propertiesArg = Undefined
    /\ hasLoaded \in [TexIds -> BOOLEAN]
    /\ CanvasIdle /\ RopeIdle

NextPC ==
    \/ Constructor
    \/ OnChildrenChange
    \/ AddChild
    \/ RemoveChild
    \/ RenderWebGL
    \/ TextureLoaded
    \/ Destroy

SpecPC == InitPC /\ [][NextPC]_vars

\* ====================================================================
\*  renderCanvas
\* ====================================================================

\* this.worldTransform scaled by the renderer's resolution
ContainerTransform == Transform(0, FALSE)

\* one call on the raster context: the child it is made for (0: the
\* container) and the matrix it sets, or the matrix in effect when it is made
Call(op, child, m) == [op |-> op, child |-> child, m |-> m]

CanvasStepNoReset(child, i, roundPixels, st) ==
    IF ~child.visible THEN st
    ELSE
      LET a == [st EXCEPT !.log = Append(@, Call("globalAlpha", i, st.transform))]
          b == IF ~child.rotated
               THEN IF a.isRotated
                    THEN [a EXCEPT !.transform = ContainerTransform,
                                   !.isRotated = FALSE,
                                   !.log = Append(@, Call("setTransform", i, ContainerTransform))]
                    ELSE a
               ELSE [a EXCEPT !.transform = Transform(i, roundPixels),
                              !.log = Append(@, Call("setTransform", i,
                                                     Transform(i, roundPixels)))]
      IN  [b EXCEPT !.log = Append(@, Call("drawImage", i, b.transform))]

\* renderCanvas lines 222-310: one iteration of the loop over the children
CanvasStep(child, i, roundPixels, st) ==
    IF ~child.visible THEN st
    ELSE
      LET a == [st EXCEPT !.log = Append(@, Call("globalAlpha", i, st.transform))]
          b == IF ~child.rotated
               THEN IF a.isRotated
                    THEN [a EXCEPT !.transform = ContainerTransform,
                                   !.isRotated = FALSE,
                                   !.log = Append(@, Call("setTransform", i, ContainerTransform))]
                    ELSE a
               ELSE [a EXCEPT !.isRotated = TRUE,
                              !.transform = Transform(i, roundPixels),
                              !.log = Append(@, Call("setTransform", i,
                                                     Transform(i, roundPixels)))]
      IN  [b EXCEPT !.log = Append(@, Call("drawImage", i, b.transform))]

RECURSIVE CanvasLoop(_, _, _, _)
\* renderCanvas line 220: for (let i = 0; i < this.children.length; ++i)
CanvasLoop(ch, i, roundPixels, st) ==
    IF i > Len(ch) THEN st
    ELSE CanvasLoop(ch, i + 1, roundPixels, CanvasStep(ch[i], i, roundPixels, st))

\* renderCanvas lines 200-216: the state the loop starts from
CanvasEntry(transform, compositeDiffers) ==
    [isRotated |-> TRUE,
     transform |-> transform,
     log |-> (IF compositeDiffers
              THEN <<Call("globalCompositeOperation", 0, transform)>>
              ELSE <<>>) \o <<Call("globalAlpha", 0, transform)>>]

RenderCanvas ==
    /\ pc = "live"
    /\ \E visible \in BOOLEAN, alphaPositive \in BOOLEAN, renderable \in BOOLEAN,
          roundPixels \in BOOLEAN, compositeDiffers \in BOOLEAN :
          LET passes == RenderGuard(visible, alphaPositive, renderable, Len(children))
              out == CanvasLoop(children, 1, roundPixels,
                                CanvasEntry(ctxTransform, compositeDiffers))
          IN  IF ~passes
              THEN /\ ~roundPixels /\ ~compositeDiffers
                   /\ ctxLog' = <<>>
                   /\ UNCHANGED ctxTransform
                   /\ lastOp' = Op("renderCanvas", -1, -1, -1, FALSE)
              ELSE /\ ctxLog' = out.log
                   /\ ctxTransform' = out.transform
                   /\ lastOp' = Op("renderCanvas", -1, -1, -1, TRUE)
    /\ UNCHANGED <<pcVars, ropeVars>>

\* a container built with the default arguments, holding any child list
InitCanvas ==
    /\ pc = "live"
    /\ maxSizeArg = 0 /\ batchSizeArg = 0 /\ propertiesArg = Undefined
    /\ _properties = DefaultProperties
    /\ _maxSize = DefaultMaxSize
    /\ _batchSize = EffectiveBatchSize(0, 0)
    /\ _glBuffers = List(<<>>) /\ _buffers = Undefined /\ _bufferToUpdate = 0
    /\ baseTexture = NoTexture
    /\ \E n \in 0..MaxCanvasChildren :
          children \in [1..n -> {Child(1, v, r) : v \in BOOLEAN, r \in BOOLEAN}]
    /\ hasLoaded = [t \in TexIds |-> TRUE]
    /\ listeners = {} /\ allocated = 0 /\ released = {}
    /\ lastOp = Op("constructor", -1, -1, -1, TRUE)
    /\ CanvasIdle /\ RopeIdle

NextCanvas == RenderCanvas

SpecCanvas == InitCanvas /\ [][NextCanvas]_vars

\* ====================================================================
\*  Rope
\* ====================================================================

\* ---- numbers: the JavaScript doubles the Rope computes with, kept as exact
\* ---- fractions <<numerator, denominator>>; a zero denominator is NaN
\* ---- (<<0, 0>>) or an infinity (<<1, 0>>, <<-1, 0>>)
Abs(n) == IF n < 0 THEN -n ELSE n
Sgn(n) == IF n < 0 THEN -1 ELSE IF n > 0 THEN 1 ELSE 0

RECURSIVE GCD(_, _)
GCD(a, b) == IF b = 0 THEN a ELSE GCD(b, a % b)

Rat(n, d) ==
    IF d = 0 THEN <<Sgn(n), 0>>
    ELSE LET g == GCD(Abs(n), Abs(d))
             s == Sgn(d)
         IN  <<(s * n) \div g, (s * d) \div g>>

R(n) == <<n, 1>>
NaN == <<0, 0>>
IsFinite(a) == a[2] # 0

RNeg(a) == <<-a[1], a[2]>>
RAdd(a, b) ==
    IF IsFinite(a) /\ IsFinite(b) THEN Rat(a[1] * b[2] + b[1] * a[2], a[2] * b[2])
    ELSE IF a = NaN \/ b = NaN THEN NaN
    ELSE IF ~IsFinite(a) /\ ~IsFinite(b) THEN (IF a = b THEN a ELSE NaN)
    ELSE IF IsFinite(a) THEN b ELSE a
RSub(a, b) == RAdd(a, RNeg(b))
RMul(a, b) == Rat(a[1] * b[1], a[2] * b[2])
RDiv(a, b) ==
    IF IsFinite(a) /\ IsFinite(b) THEN Rat(a[1] * b[2], a[2] * b[1])
    ELSE IF a = NaN \/ b = NaN THEN NaN
    ELSE IF ~IsFinite(b) THEN (IF IsFinite(a) THEN R(0) ELSE NaN)
    ELSE <<a[1] * (IF b[1] < 0 THEN -1 ELSE 1), 0>>

\* Math.sqrt(perpX * perpX + perpY * perpY); the point set used below keeps
\* every such sum a perfect square
Hypot(a, b) ==
    CHOOSE r \in Max(Abs(a), Abs(b))..(Abs(a) + Abs(b)) : r * r = a * a + b * b

\* ---- typed arrays: fixed length, zero-filled, writes past the end dropped
Zeros(n) == [i \in 1..n |-> R(0)]
IntZeros(n) == [i \in 1..n |-> 0]
SetAt(arr, index, value) ==
    IF index < Len(arr) THEN [arr EXCEPT ![index + 1] = value] ELSE arr
\* Uint16Array element conversion
ToUint16(n) == n % 65536

\* ---- inputs
Point(x, y) == [x |-> x, y |-> y]
\* positions with pairwise whole distances: three on a horizontal line, one off it
PointSet == {Point(0, 0), Point(50, 0), Point(100, 0), Point(50, 120)}
\* texture._uvs: (x0, y0) and (x2, y2) corners of the image's UV rectangle
Uvs(x0, y0, x2, y2) == [t |-> "uvs", x0 |-> x0, y0 |-> y0, x2 |-> x2, y2 |-> y2]
UVRects == {Uvs(R(0), R(0), R(1), R(1)),
            Uvs(Rat(1, 4), Rat(1, 2), Rat(3, 4), R(1))}
Heights == {20, 8}

\* ---- refresh()
RefreshFirst(offset, factor, buf) ==
    [uvs |-> SetAt(SetAt(SetAt(SetAt(buf.uvs,
                 0, RAdd(R(0), offset.x)),
                 1, RAdd(R(0), offset.y)),
                 2, RAdd(R(0), offset.x)),
                 3, RAdd(RMul(R(1), factor.y), offset.y)),
     colors |-> SetAt(SetAt(buf.colors, 0, R(1)), 1, R(1)),
     indices |-> SetAt(SetAt(buf.indices, 0, ToUint16(0)), 1, ToUint16(1))]

RefreshPointOffByOne(i, total, offset, factor, buf) ==
    LET amount == RDiv(R(i), R(total))
        u == RAdd(RMul(amount, factor.x), offset.x)
    IN  [uvs |-> SetAt(SetAt(SetAt(SetAt(buf.uvs,
                     i * 4, u),
                     i * 4 + 1, RAdd(R(0), offset.y)),
                     i * 4 + 2, u),
                     i * 4 + 3, RAdd(RMul(R(1), factor.y), offset.y)),
         colors |-> SetAt(SetAt(buf.colors, i * 2, R(1)), i * 2 + 1, R(1)),
         indices |-> SetAt(SetAt(buf.indices, i * 2, ToUint16(i * 2)),
                           i * 2 + 1, ToUint16(i * 2 + 1))]

\* refresh lines 102-119: the entries of point i
RefreshPoint(i, total, offset, factor, buf) ==
    LET amount == RDiv(R(i), R(total - 1))
        u == RAdd(RMul(amount, factor.x), offset.x)
    IN  [uvs |-> SetAt(SetAt(SetAt(SetAt(buf.uvs,
                     i * 4, u),
                     i * 4 + 1, RAdd(R(0), offset.y)),
                     i * 4 + 2, u),
                     i * 4 + 3, RAdd(RMul(R(1), factor.y), offset.y)),
         colors |-> SetAt(SetAt(buf.colors, i * 2, R(1)), i * 2 + 1, R(1)),
         indices |-> SetAt(SetAt(buf.indices, i * 2, ToUint16(i * 2)),
                           i * 2 + 1, ToUint16(i * 2 + 1))]

RECURSIVE RefreshLoop(_, _, _, _, _)
\* refresh lines 100-120: for (let i = 1; i < total; i++)
RefreshLoop(i, total, offset, factor, buf) ==
    IF i >= total THEN buf
    ELSE RefreshLoop(i + 1, total, offset, factor,
                     RefreshPoint(i, total, offset, factor, buf))

\* refresh lines 72-75: the early return
RefreshSkips(pts, textureUvs) == Len(pts) < 1 \/ textureUvs = Null

\* refresh lines 77-120: the uvs, colors and indices it leaves (buf holds the
\* three arrays' contents)
RefreshBuffers(pts, textureUvs, buf) ==
    LET offset == [x |-> textureUvs.x0, y |-> textureUvs.y0]
        factor == [x |-> RSub(textureUvs.x2, textureUvs.x0),
                   y |-> RSub(textureUvs.y2, textureUvs.y0)]
    IN  RefreshLoop(1, Len(pts), offset, factor, RefreshFirst(offset, factor, buf))

\* ---- updateTransform()
\* updateTransform lines 199-202: the two vertices of point i
WritePair(verts, i, point, perpX, perpY) ==
    SetAt(SetAt(SetAt(SetAt(verts,
          i * 4, RAdd(R(point.x), perpX)),
          i * 4 + 1, RAdd(R(point.y), perpY)),
          i * 4 + 2, RSub(R(point.x), perpX)),
          i * 4 + 3, RSub(R(point.y), perpY))

PerpNoNormalise(perp0, perpLength, num) == RMul(R(perp0), num)

\* updateTransform lines 193-197: perp /= perpLength; perp *= num
Perp(perp0, perpLength, num) == RMul(RDiv(R(perp0), R(perpLength)), num)

\* updateTransform lines 181-197 for the tangent from lastPoint to nextPoint
PerpOf(lastPoint, nextPoint, perpLength, num) ==
    [x |-> Perp(nextPoint.y - lastPoint.y, perpLength, num),
     y |-> Perp(-(nextPoint.x - lastPoint.x), perpLength, num)]

\* updateTransform lines 169-202: the vertex pair of point i (0-based); the
\* taper ratio of lines 184-189 is computed and never used
UpdatePoint(pts, i, lastPoint, height, verts) ==
    LET point == pts[i + 1]
        nextPoint == IF i < Len(pts) - 1 THEN pts[i + 2] ELSE point
        perp == PerpOf(lastPoint, nextPoint,
                       Hypot(nextPoint.y - lastPoint.y, -(nextPoint.x - lastPoint.x)),
                       Rat(height, 2))
    IN  WritePair(verts, i, point, perp.x, perp.y)

RECURSIVE UpdateLoop(_, _, _, _, _)
\* updateTransform lines 167-205: for (let i = 0; i < total; i++)
UpdateLoop(pts, i, lastPoint, height, verts) ==
    IF i >= Len(pts) THEN verts
    ELSE UpdateLoop(pts, i + 1, pts[i + 1], height,
                    UpdatePoint(pts, i, lastPoint, height, verts))

\* updateTransform lines 149-205: the vertices it leaves
UpdateVertices(pts, height, verts) ==
    IF Len(pts) < 1 THEN verts ELSE UpdateLoop(pts, 0, pts[1], height, verts)

\* ---- Rope actions
Buffers == [uvs |-> uvs.v, colors |-> colors.v, indices |-> indices.v]

\* refresh() on the current fields, the image's UV rectangle being textureUvs;
\* refresh is only ever reached with the buffers allocated (a call on
\* unallocated buffers would throw at line 86 and change nothing)
DoRefresh(textureUvs) ==
    IF RefreshSkips(points, textureUvs) \/ ~IsList(uvs)
    THEN UNCHANGED <<uvs, colors, indices, dirty, indexDirty>>
    ELSE LET out == RefreshBuffers(points, textureUvs, Buffers)
         IN  /\ uvs' = List(out.uvs)
             /\ colors' = List(out.colors)
             /\ indices' = List(out.indices)
             /\ dirty' = TRUE
             /\ indexDirty' = TRUE

\* constructor line 24: super(texture); the Mesh constructor takes the texture
RopeCtorSuper ==
    /\ rpc = "new"
    /\ rpc' = "super"
    /\ lastOp' = Op("super", Len(points), -1, -1, FALSE)
    /\ UNCHANGED <<points, vertices, uvs, colors, indices, _ready, texUvs,
                   texHeight, dirty, indexDirty>>
    /\ UNCHANGED <<pcVars, canvasVars>>

\* constructor lines 29-60: the four allocations, _ready = true, refresh()
RopeCtorBody ==
    /\ rpc = "super"
    /\ rpc' = "done"
    /\ vertices' = List(Zeros(Len(points) * 4))
    /\ _ready' = TRUE
    /\ IF RefreshSkips(points, texUvs)
       THEN /\ uvs' = List(Zeros(Len(points) * 4))
            /\ colors' = List(Zeros(Len(points) * 2))
            /\ indices' = List(IntZeros(Len(points) * 2))
            /\ UNCHANGED <<dirty, indexDirty>>
       ELSE LET out == RefreshBuffers(points, texUvs,
                          [uvs |-> Zeros(Len(points) * 4),
                           colors |-> Zeros(Len(points) * 2),
                           indices |-> IntZeros(Len(points) * 2)])
            IN  /\ uvs' = List(out.uvs)
                /\ colors' = List(out.colors)
                /\ indices' = List(out.indices)
                /\ dirty' = TRUE
                /\ indexDirty' = TRUE
    /\ lastOp' = Op("ropeConstructor", Len(points), -1, -1, TRUE)
    /\ UNCHANGED <<points, texUvs, texHeight>>
    /\ UNCHANGED <<pcVars, canvasVars>>

RefreshUngated(ready) == TRUE

\* _onTextureUpdate line 137: if (this._ready)
RefreshGate(ready) == ready

\* _onTextureUpdate(): the image was replaced or finished loading, its UV
\* rectangle is resolved; arrives inside the Mesh constructor or any time
\* after construction
OnTextureUpdate ==
    /\ rpc \in {"super", "done"}
    /\ \E rect \in UVRects :
          /\ texUvs' = rect
          /\ IF RefreshGate(_ready)
             THEN DoRefresh(rect)
             ELSE UNCHANGED <<uvs, colors, indices, dirty, indexDirty>>
          /\ lastOp' = Op("_onTextureUpdate", Len(points), -1, -1, RefreshGate(_ready))
    /\ UNCHANGED <<rpc, points, vertices, _ready, texHeight>>
    /\ UNCHANGED <<pcVars, canvasVars>>

\* refresh() called by the owner of the rope
Refresh ==
    /\ rpc = "done"
    /\ DoRefresh(texUvs)
    /\ lastOp' = Op("refresh", Len(points), -1, -1, TRUE)
    /\ UNCHANGED <<rpc, points, vertices, _ready, texUvs, texHeight>>
    /\ UNCHANGED <<pcVars, canvasVars>>

\* updateTransform(), once per frame; since the frame before, the caller
\* has left the shared array alone (i = 0) or moved its point i to p
UpdateTransform ==
    /\ rpc = "done"
    /\ \E i \in 0..Len(points), p \in PointSet :
          LET pts == IF i = 0 THEN points ELSE [points EXCEPT ![i] = p]
          IN  /\ points' = pts
              /\ vertices' = List(UpdateVertices(pts, texHeight, vertices.v))
    /\ lastOp' = Op("updateTransform", Len(points), -1, -1, FALSE)
    /\ UNCHANGED <<rpc, uvs, colors, indices, _ready, texUvs, texHeight,
                   dirty, indexDirty>>
    /\ UNCHANGED <<pcVars, canvasVars>>

\* the caller appends to the point array it shares with the rope
PushPoint ==
    /\ rpc = "done"
    /\ Len(points) < MaxPoints
    /\ points' = Append(points, Point(0, 0))
    /\ lastOp' = Op("push", Len(points) + 1, -1, -1, FALSE)
    /\ UNCHANGED <<rpc, vertices, uvs, colors, indices, _ready, texUvs, texHeight,
                   dirty, indexDirty>>
    /\ UNCHANGED <<pcVars, canvasVars>>

\* the caller removes the last point of the shared array
PopPoint ==
    /\ rpc = "done"
    /\ Len(points) > 0
    /\ points' = SubSeq(points, 1, Len(points) - 1)
    /\ lastOp' = Op("pop", Len(points) - 1, -1, -1, FALSE)
    /\ UNCHANGED <<rpc, vertices, uvs, colors, indices, _ready, texUvs, texHeight,
                   dirty, indexDirty>>
    /\ UNCHANGED <<pcVars, canvasVars>>

PCIdle ==
    /\ pc = "idle"
    /\ maxSizeArg = 0 /\ batchSizeArg = 0 /\ propertiesArg = Undefined
    /\ _properties = Undefined /\ _maxSize = 0 /\ _batchSize = 0
    /\ _glBuffers = Undefined /\ _buffers = Undefined /\ _bufferToUpdate = 0
    /\ baseTexture = NoTexture /\ children = <<>>
    /\ hasLoaded = [t \in TexIds |-> TRUE]
    /\ listeners = {} /\ allocated = 0 /\ released = {}

\* new Rope(texture, points) about to run on a chain of n points, the
\* image's UV rectangle resolved or not; refresh() never reads a position
InitRope ==
    /\ rpc = "new"
    /\ \E n \in 0..MaxPoints : points = [i \in 1..n |-> Point(0, 0)]
    /\ vertices = Undefined /\ uvs = Undefined
    /\ colors = Undefined /\ indices = Undefined
    /\ _ready = FALSE
    /\ texUvs \in {Null} \cup UVRects
    /\ texHeight \in Heights
    /\ dirty = FALSE /\ indexDirty = FALSE
    /\ lastOp = Op("none", -1, -1, -1, FALSE)
    /\ PCIdle /\ CanvasIdle

NextRope ==
    \/ RopeCtorSuper
    \/ RopeCtorBody
    \/ OnTextureUpdate
    \/ Refresh
    \/ PushPoint
    \/ PopPoint

SpecRope == InitRope /\ [][NextRope]_vars

\* new Rope(texture, points) about to run on any chain of positions
InitVertices ==
    /\ rpc = "new"
    /\ \E n \in 0..MaxPoints : points \in [1..n -> PointSet]
    /\ vertices = Undefined /\ uvs = Undefined
    /\ colors = Undefined /\ indices = Undefined
    /\ _ready = FALSE
    /\ texUvs = Uvs(R(0), R(0), R(1), R(1))
    /\ texHeight \in Heights
    /\ dirty = FALSE /\ indexDirty = FALSE
    /\ lastOp = Op("none", -1, -1, -1, FALSE)
    /\ PCIdle /\ CanvasIdle

NextVertices ==
    \/ RopeCtorSuper
    \/ RopeCtorBody
    \/ UpdateTransform

SpecVertices == InitVertices /\ [][NextVertices]_vars

\* ====================================================================
\*  Claims about the container
\* ====================================================================

\* the arguments as the constructor sees them after `|| 15000`
RequestedBatchSize == IF batchSizeArg = 0 THEN 15000 ELSE batchSizeArg
RequestedMaxSize == IF maxSizeArg = 0 THEN 15000 ELSE maxSizeArg

\* C1 as stated: no onChildrenChange call raises _bufferToUpdate, and after
\* onChildrenChange(k2) then onChildrenChange(k1) with k1 < k2 the value
\* equals floor(k1 / batchSize).
C1_AsStated ==
    lastOp.name = "onChildrenChange" =>
        /\ _bufferToUpdate <= lastOp.before
        /\ (lastOp.prev > lastOp.arg =>
                _bufferToUpdate = lastOp.arg \div _batchSize)

\* C1 amended: no onChildrenChange call raises _bufferToUpdate; the call with
\* index k leaves the smaller of the previous value and floor(k / batchSize),
\* so after onChildrenChange(k2) then onChildrenChange(k1) with k1 < k2 the
\* value is at most floor(k1 / batchSize), and equals it when the value
\* before the second call was not already lower.
C1_DirtyFloorLowers ==
    lastOp.name = "onChildrenChange" =>
        LET target == lastOp.arg \div _batchSize
        IN  /\ _bufferToUpdate <= lastOp.before
            /\ _bufferToUpdate = Min(lastOp.before, target)
            /\ (lastOp.prev > lastOp.arg =>
                    /\ _bufferToUpdate <= target
                    /\ (lastOp.before >= target => _bufferToUpdate = target))

\* onChildrenChange(k1) right after onChildrenChange(k2), k1 < k2, lowered the floor
C1_Witness ==
    /\ lastOp.name = "onChildrenChange"
    /\ lastOp.prev > lastOp.arg
    /\ _bufferToUpdate = lastOp.arg \div _batchSize
    /\ _bufferToUpdate < lastOp.before
    /\ _bufferToUpdate > 0

\* C2 as stated: after destroy() every buffer group allocated into the list
\* the constructor creates (_glBuffers) has been released, and the property
\* flags and that list are empty or null.
C2_AsStated ==
    lastOp.name = "destroy" =>
        /\ \A id \in 1..allocated : id \in released
        /\ _properties = Null
        /\ (_glBuffers = Null \/ _glBuffers = List(<<>>))

\* C3: a render that passes the guard with no image source captured yet
\* captures the first child's image source; as long as the captured source
\* has not loaded, the one-shot callback is registered on it; and when the
\* load event runs the callback, _bufferToUpdate is 0 afterwards and the
\* callback is gone.
C3_DeferredLoadInvalidates ==
    /\ (lastOp.name = "renderWebGL" /\ lastOp.ok /\ lastOp.arg = 1 =>
            baseTexture = children[1].tex)
    /\ (baseTexture # NoTexture /\ ~hasLoaded[baseTexture] =>
            baseTexture \in listeners)
    /\ (lastOp.name = "textureLoaded" /\ lastOp.ok =>
            /\ _bufferToUpdate = 0
            /\ lastOp.arg \notin listeners
            /\ hasLoaded[lastOp.arg])

\* the captured source loaded after an upload pass had raised the floor,
\* and the callback brought it back to 0
C3_Witness ==
    /\ lastOp.name = "textureLoaded"
    /\ lastOp.ok
    /\ lastOp.arg = baseTexture
    /\ lastOp.before > 0
    /\ _bufferToUpdate = 0

\* C4 as stated: a requested batchSize above 16384 always gives
\* _batchSize = 16384, whatever maxSize is.
C4_AsStated ==
    pc # "new" /\ batchSizeArg > 16384 => _batchSize = 16384

\* C4 amended: a requested batchSize above 16384 gives _batchSize =
\* min(16384, maxSize) (maxSize defaulting to 15000); it is 16384 exactly
\* when maxSize is at least 16384.
C4_CeilingThenMaxSize ==
    pc # "new" /\ batchSizeArg > 16384 =>
        /\ _batchSize = Min(16384, RequestedMaxSize)
        /\ (RequestedMaxSize >= 16384 => _batchSize = 16384)

\* a batchSize above the ceiling with a maxSize above it too
C4_Witness ==
    /\ pc = "live"
    /\ batchSizeArg > 16384
    /\ maxSizeArg > 16384
    /\ _batchSize = 16384

\* C5 as stated: a requested batchSize above maxSize always gives
\* _batchSize = maxSize.
C5_AsStated ==
    pc # "new" /\ RequestedBatchSize > RequestedMaxSize =>
        _batchSize = RequestedMaxSize

\* C5 amended: a requested batchSize above maxSize gives _batchSize =
\* min(maxSize, 16384); it is maxSize exactly when maxSize is at most 16384
\* (maxSize = 10, batchSize = 20 gives 10).
C5_MaxSizeUnderCeiling ==
    pc # "new" /\ RequestedBatchSize > RequestedMaxSize =>
        /\ _batchSize = Min(RequestedMaxSize, 16384)
        /\ (RequestedMaxSize <= 16384 => _batchSize = RequestedMaxSize)

\* the scenario maxSize = 10, batchSize = 20
C5_Witness ==
    /\ pc = "live"
    /\ maxSizeArg = 10
    /\ batchSizeArg = 20
    /\ _batchSize = 10

\* the nearest visible child before child i (0: none)
PrevVisible(i) ==
    LET before == {j \in 1..(i - 1) : children[j].visible}
    IN  IF before = {} THEN 0 ELSE CHOOSE j \in before : \A k \in before : k <= j

\* child i opens a maximal run of consecutive visible non-rotated children
RunStart(i) ==
    /\ children[i].visible
    /\ ~children[i].rotated
    /\ (PrevVisible(i) = 0 \/ children[PrevVisible(i)].rotated)

CallsFor(op, i) == {p \in DOMAIN ctxLog : ctxLog[p].op = op /\ ctxLog[p].child = i}

\* C10: in a raster pass an invisible child causes no call at all; every
\* visible child is drawn once; the container's transform is set exactly
\* once for a child that opens a run of visible non-rotated children and
\* never for any other child; and every non-rotated child is drawn with the
\* container's transform in effect.
C10_CanvasRuns ==
    lastOp.name = "renderCanvas" /\ lastOp.ok =>
        \A i \in 1..Len(children) :
            /\ (~children[i].visible =>
                    {p \in DOMAIN ctxLog : ctxLog[p].child = i} = {})
            /\ (children[i].visible => Cardinality(CallsFor("drawImage", i)) = 1)
            /\ Cardinality({p \in CallsFor("setTransform", i) :
                               ctxLog[p].m = ContainerTransform})
                  = (IF RunStart(i) THEN 1 ELSE 0)
            /\ (children[i].visible /\ ~children[i].rotated =>
                    \A p \in CallsFor("drawImage", i) :
                        ctxLog[p].m = ContainerTransform)
            /\ (children[i].visible /\ children[i].rotated =>
                    \A p \in CallsFor("drawImage", i) : ctxLog[p].m.of = i)

\* a pass that started on a rotated child's transform left by the pass
\* before, and drew a rotated child, skipped an invisible one and then
\* opened a new run
C10_Witness ==
    /\ lastOp.name = "renderCanvas" /\ lastOp.ok
    /\ ctxLog[1].m.of > 0
    /\ \E i, j, k \in 1..Len(children) :
          /\ i < j /\ j < k
          /\ children[i].visible /\ children[i].rotated
          /\ ~children[j].visible
          /\ RunStart(k)
          /\ \A p \in CallsFor("drawImage", k) : ctxLog[p].m = ContainerTransform

\* ====================================================================
\*  Claims about the rope
\* ====================================================================

N == Len(points)

\* the last operation ran refresh() on the constructed rope
RefreshRan ==
    /\ rpc = "done"
    /\ lastOp.name \in {"refresh", "ropeConstructor", "_onTextureUpdate"}
    /\ lastOp.ok

\* the point count is the one the buffers were allocated for
CountUnchanged == Len(uvs.v) = 4 * N

OffsetX == texUvs.x0
OffsetY == texUvs.y0
ScaleX == RSub(texUvs.x2, texUvs.x0)
ScaleY == RSub(texUvs.y2, texUvs.y0)

\* what C6 says of every point count: first uv at the offset, colors 1,
\* indices[j] = j
C6_Common ==
    /\ Len(colors.v) = 2 * N
    /\ Len(indices.v) = 2 * N
    /\ uvs.v[1] = OffsetX
    /\ uvs.v[2] = OffsetY
    /\ \A j \in 1..(2 * N) : colors.v[j] = R(1) /\ indices.v[j] = j - 1
    /\ \A i \in 0..(N - 1) :
          /\ uvs.v[4 * i + 2] = OffsetY
          /\ uvs.v[4 * i + 4] = RAdd(ScaleY, OffsetY)
    /\ dirty /\ indexDirty

\* the longitudinal coordinate of the last point is scaleX + offsetX
C6_LastAtEnd ==
    /\ uvs.v[4 * (N - 1) + 1] = RAdd(ScaleX, OffsetX)
    /\ uvs.v[4 * (N - 1) + 3] = RAdd(ScaleX, OffsetX)

\* C6 as stated: for every N >= 1 (N = 1 included) refresh() on a resolved
\* UV rectangle fills N uv, color and index pairs with uvs[0] = offsetX,
\* uvs[1] = offsetY, colors 1, indices[j] = j, and the last point's
\* longitudinal coordinate scaleX + offsetX.
C6_AsStated ==
    RefreshRan /\ N >= 1 /\ texUvs # Null /\ CountUnchanged =>
        C6_Common /\ C6_LastAtEnd

\* C6 amended: the same for every N >= 2; for N = 1 the only point's
\* longitudinal coordinate is offsetX (the loop that writes
\* i / (N - 1) * scaleX + offsetX starts at i = 1 and does not run).
C6_RefreshFills ==
    RefreshRan /\ N >= 1 /\ texUvs # Null /\ CountUnchanged =>
        /\ C6_Common
        /\ (N >= 2 => C6_LastAtEnd)
        /\ (N = 1 => uvs.v[1] = OffsetX /\ uvs.v[3] = OffsetX)

\* refresh() ran on three or more points and an image inside an atlas
C6_Witness ==
    /\ RefreshRan /\ lastOp.name = "refresh"
    /\ N >= 3 /\ texUvs # Null /\ CountUnchanged
    /\ OffsetX # R(0)
    /\ uvs.v[4 * (N - 1) + 1] = texUvs.x2
    /\ uvs.v[1] = OffsetX

\* the chain is a horizontal line walked left to right / right to left
Horizontal == \A i \in 1..N : points[i].y = points[1].y
Increasing == \A i \in 1..(N - 1) : points[i].x < points[i + 1].x
Decreasing == \A i \in 1..(N - 1) : points[i].x > points[i + 1].x

HalfHeight == Rat(texHeight, 2)

\* the four scalars written for point i (0-based)
Pair(i) == SubSeq(vertices.v, 4 * i + 1, 4 * i + 4)

\* the two points whose difference is the tangent used at point i (0-based)
LastPointAt(i) == IF i = 0 THEN points[1] ELSE points[i]
NextPointAt(i) == IF i < N - 1 THEN points[i + 2] ELSE points[i + 1]

\* point i's pair is point + perp and point - perp, perp being at right
\* angles to the tangent and half the image height long; with a zero
\* tangent the division 0 / 0 leaves four NaN
PairAroundPoint(i) ==
    LET p == points[i + 1]
        v == Pair(i)
        dx == RSub(v[1], R(p.x))
        dy == RSub(v[2], R(p.y))
        tx == NextPointAt(i).x - LastPointAt(i).x
        ty == NextPointAt(i).y - LastPointAt(i).y
    IN  IF tx = 0 /\ ty = 0
        THEN v = <<NaN, NaN, NaN, NaN>>
        ELSE /\ RAdd(v[1], v[3]) = R(2 * p.x)
             /\ RAdd(v[2], v[4]) = R(2 * p.y)
             /\ RAdd(RMul(dx, dx), RMul(dy, dy)) = RMul(HalfHeight, HalfHeight)
             /\ RAdd(RMul(dx, R(tx)), RMul(dy, R(ty))) = R(0)

\* every perp of a horizontal chain is vertical, half the image height long
\* and points the same way
StraightChainPerps ==
    /\ (Horizontal /\ Increasing =>
          \A i \in 0..(N - 1) :
              Pair(i) = <<R(points[i + 1].x), RSub(R(points[i + 1].y), HalfHeight),
                          R(points[i + 1].x), RAdd(R(points[i + 1].y), HalfHeight)>>)
    /\ (Horizontal /\ Decreasing =>
          \A i \in 0..(N - 1) :
              Pair(i) = <<R(points[i + 1].x), RAdd(R(points[i + 1].y), HalfHeight),
                          R(points[i + 1].x), RSub(R(points[i + 1].y), HalfHeight)>>)

\* C7 as stated: for every N >= 1 updateTransform writes N pairs, point +
\* perp and point - perp, and on a straight horizontal chain every perp is
\* a well-defined vertical vector of half the image height.
C7_AsStated ==
    lastOp.name = "updateTransform" /\ N >= 1 =>
        /\ Len(vertices.v) = 4 * N
        /\ \A i \in 0..(N - 1) : PairAroundPoint(i)
        /\ StraightChainPerps

\* C7 amended: the horizontal-chain part holds for N >= 2 (x strictly
\* increasing or strictly decreasing); with N = 1 the tangent is zero and
\* the pair is NaN.
C7_VertexPairs ==
    lastOp.name = "updateTransform" /\ N >= 1 =>
        /\ Len(vertices.v) = 4 * N
        /\ \A i \in 0..(N - 1) : PairAroundPoint(i)
        /\ (N >= 2 => StraightChainPerps)
        /\ (N = 1 => Pair(0) = <<NaN, NaN, NaN, NaN>>)

\* the scenario (0,0), (50,0), (100,0) with image height 20
C7_Witness ==
    /\ lastOp.name = "updateTransform"
    /\ points = <<Point(0, 0), Point(50, 0), Point(100, 0)>>
    /\ texHeight = 20
    /\ Pair(1) = <<R(50), R(-10), R(50), R(10)>>

\* C8 as stated: after the caller changed the point count and called
\* refresh(), vertices and uvs hold 4 scalars and colors and indices 2
\* scalars per current point, with uv, color and index values for each.
C8_AsStated ==
    lastOp.name = "refresh" =>
        /\ Len(vertices.v) = 4 * N
        /\ Len(uvs.v) = 4 * N
        /\ Len(colors.v) = 2 * N
        /\ Len(indices.v) = 2 * N
        /\ (N >= 1 /\ texUvs # Null =>
               \A j \in 1..(2 * N) : colors.v[j] = R(1) /\ indices.v[j] = j - 1)

AllAllocated == IsList(vertices) /\ IsList(uvs) /\ IsList(colors) /\ IsList(indices)

\* C9: an image-change notification runs refresh() only after the
\* constructor has allocated the four buffers and set _ready; one arriving
\* during the base mesh initialization runs no refresh and touches nothing;
\* one arriving after construction runs refresh().
C9_RefreshGated ==
    lastOp.name = "_onTextureUpdate" =>
        /\ (lastOp.ok => _ready /\ AllAllocated /\ rpc = "done")
        /\ (rpc = "super" =>
               /\ ~lastOp.ok
               /\ uvs = Undefined /\ colors = Undefined /\ indices = Undefined
               /\ ~dirty /\ ~indexDirty)
        /\ (rpc = "done" =>
               /\ lastOp.ok
               /\ (N >= 1 => dirty /\ indexDirty)
               /\ (N >= 1 /\ CountUnchanged => uvs.v[1] = OffsetX))

\* a notification arrived inside the Mesh constructor, with points and a
\* resolved UV rectangle at hand
C9_Witness ==
    /\ lastOp.name = "_onTextureUpdate"
    /\ rpc = "super"
    /\ N >= 1
    /\ texUvs # Null
    /\ ~_ready
    /\ uvs = Undefined

====
